---- MODULE Spec2Model ----
(***************************************************************************)
(* Model of process_ble_data/honeycomb_io.py: one call of                  *)
(* fetch_ble_datapoints, step by step, against a graph-query service.      *)
(*                                                                         *)
(* Python values: None is the string "None" where an identifier, a name or *)
(* a credential is expected, the empty tuple where a datetime is expected,  *)
(* NoTypes where a list of device types is expected (a list l is List(l))  *)
(* and NoClient where a client is expected.  A Python datetime t is <<t>>; the service's datetime string  *)
(* for it is <<"iso", t>>.  A table (DataFrame) is the sequence of its     *)
(* rows, each row a function from column names (the index column included) *)
(* to values; an empty cell (NaN) is None.                                 *)
(***************************************************************************)
EXTENDS Integers, Sequences, FiniteSets, TLC

VARIABLES
    args,                   \* the arguments of the fetch_ble_datapoints call
    service,                \* what the service holds (drawn when first asked)
    pc,                     \* position of the call
    clients,                \* clients constructed so far, in order
    queries,                \* bulk queries issued so far, in order
    env_outcome,            \* outcome of fetch_environment_id
    tag_outcome,            \* outcome of fetch_device_assignments, tags
    anchor_outcome,         \* outcome of fetch_device_assignments, anchors
    result,                 \* datapoints returned by the datapoint search
    outcome                 \* outcome of fetch_ble_datapoints

vars == <<args, service, pc, clients, queries, env_outcome, tag_outcome,
          anchor_outcome, result, outcome>>

(***************************************************************************)
(* Bounds of the model.                                                    *)
(***************************************************************************)
MaxTime == 2            \* window bounds range over 1..MaxTime
MaxAssignments == 3     \* assignments held by the service
MaxDatapoints == 2      \* datapoints held by the service

None == "None"
NoTime == <<>>
NoTypes == [none |-> TRUE, list |-> <<>>]
List(l) == [none |-> FALSE, list |-> l]
NoClient == [instance |-> "None"]
NotRun == [raised |-> FALSE, error |-> "NotRun", value |-> <<>>]

Range(s) == {s[i] : i \in DOMAIN s}

Returned(v) == [raised |-> FALSE, error |-> None, value |-> v]
Raised(e) == [raised |-> TRUE, error |-> e, value |-> <<>>]

NoEnvironmentsMatch == "ValueError: No environments match environment name"
MultipleEnvironmentsMatch == "ValueError: Multiple environments match environment name"
NameWithId ==
    "ValueError: If environment ID is specified, environment name cannot be specified"
MustSpecifyEnvironment == "ValueError: Must specify environment"
KeyError == "KeyError"

(***************************************************************************)
(* The external client library (minimal_honeycomb).                        *)
(***************************************************************************)
MinimalHoneycombClient(uri, token_uri, audience, client_id, client_secret) ==
    [instance |-> "constructed", uri |-> uri, token_uri |-> token_uri,
     audience |-> audience, client_id |-> client_id,
     client_secret |-> client_secret]

to_honeycomb_datetime(t) == <<"iso", t[1]>>

from_honeycomb_datetime(s) == IF s = NoTime THEN NoTime ELSE <<s[2]>>

\* Does the object satisfy one predicate of a query expression?  A predicate
\* over a field the object does not have is not satisfied.
Satisfies(obj, q) ==
    IF q.field \notin DOMAIN obj
        THEN FALSE
        ELSE CASE q.field = "environment" /\ q.operator = "EQ" ->
                      obj.environment = q.value
               [] q.field = "assigned_type" /\ q.operator = "EQ" ->
                      obj.assigned_type = q.value
               [] q.field = "source" /\ q.operator = "IN" ->
                      obj.source.assignment_id \in Range(q.values)
               [] q.field = "timestamp" /\ q.operator = "GTE" ->
                      obj.timestamp[2] >= q.value[2]
               [] q.field = "timestamp" /\ q.operator = "LTE" ->
                      obj.timestamp[2] <= q.value[2]
               [] OTHER -> FALSE

\* The service's answer to a bulk query: the objects it holds that satisfy
\* the arguments, in the order it holds them.
bulk_query(held, request_name, arguments) ==
    CASE request_name = "findEnvironments" ->
            SelectSeq(held.environments,
                      LAMBDA e : e.name = arguments.name.value)
      [] request_name = "searchAssignments" ->
            SelectSeq(held.assignments,
                      LAMBDA a : \A i \in DOMAIN arguments.query.value.children :
                          Satisfies(a, arguments.query.value.children[i]))
      [] request_name = "searchDatapoints" ->
            SelectSeq(held.datapoints,
                      LAMBDA d : \A i \in DOMAIN arguments.query.value.children :
                          Satisfies(d, arguments.query.value.children[i]))
      [] OTHER -> <<>>

(***************************************************************************)
(* fetch_environment_id.  A log is the record of the clients constructed   *)
(* and the queries issued so far; every operation returns its outcome and  *)
(* the log it leaves.                                                      *)
(***************************************************************************)
\* A bulk query as the client receives it.  return_data, id_field_name and
\* chunk_size select fields and page the answer inside the client; the objects
\* the service holds here carry exactly the fields the code asks for.
Query(client, request_name, arguments) ==
    [client |-> client, request_name |-> request_name, arguments |-> arguments]

\* resolve_given_id returning the other argument.
resolve_given_id_returns_name(environment_id, environment_name) ==
    IF environment_name # None
        THEN Raised(NameWithId)
        ELSE Returned(environment_name)

\* resolve_given_id without the check of the name.
resolve_given_id_ignores_name(environment_id, environment_name) ==
    Returned(environment_id)

\* Lines 166-169: an ID is given.
resolve_given_id(environment_id, environment_name) ==
    IF environment_name # None
        THEN Raised(NameWithId)
        ELSE Returned(environment_id)

\* resolve_found_environments without the check for several matches.
resolve_found_environments_takes_first(found) ==
    IF Len(found) = 0
        THEN Raised(NoEnvironmentsMatch)
        ELSE Returned(found[1].environment_id)

\* Lines 193-203: the answer of findEnvironments decides the ID.
resolve_found_environments(found) ==
    IF Len(found) = 0
        THEN Raised(NoEnvironmentsMatch)
        ELSE IF Len(found) > 1
            THEN Raised(MultipleEnvironmentsMatch)
            ELSE Returned(found[1].environment_id)

\* Line 204: neither an ID nor a name is given.
resolve_unspecified == Returned(None)

fetch_environment_id(log, held, environment_id, environment_name, client, uri, token_uri, audience, client_id, client_secret) ==
    IF environment_id # None
        THEN [out |-> resolve_given_id(environment_id, environment_name),
              log |-> log]
        ELSE IF environment_name # None
            THEN LET constructs == client = NoClient
                     c == IF constructs
                              THEN MinimalHoneycombClient(uri, token_uri, audience,
                                                          client_id, client_secret)
                              ELSE client
                     arguments == [name |-> [type |-> "String",
                                             value |-> environment_name]]
                     found == bulk_query(held, "findEnvironments", arguments)
                 IN [out |-> resolve_found_environments(found),
                     log |-> [clients |-> IF constructs
                                              THEN Append(log.clients, c)
                                              ELSE log.clients,
                              queries |-> Append(log.queries,
                                  Query(c, "findEnvironments", arguments))]]
            ELSE [out |-> resolve_unspecified, log |-> log]

(***************************************************************************)
(* Generic search helpers.                                                 *)
(***************************************************************************)
search_objects(log, held, request_name, query_list, client, uri, token_uri, audience, client_id, client_secret) ==
    LET constructs == client = NoClient
        c == IF constructs
                 THEN MinimalHoneycombClient(uri, token_uri, audience,
                                             client_id, client_secret)
                 ELSE client
        arguments == [query |-> [type |-> "QueryExpression!",
                                 value |-> [operator |-> "AND",
                                            children |-> query_list]]]
    IN [out |-> bulk_query(held, request_name, arguments),
        log |-> [clients |-> IF constructs
                                 THEN Append(log.clients, c)
                                 ELSE log.clients,
                 queries |-> Append(log.queries,
                                    Query(c, request_name, arguments))]]

\* Lines 332-343: client_secret is not handed on, so search_objects takes its
\* default, None.
search_assignments(log, held, query_list, client, uri, token_uri, audience, client_id, client_secret) ==
    search_objects(log, held, "searchAssignments", query_list, client,
                   uri, token_uri, audience, client_id, None)

\* search_ble_datapoints with the request name of search_assignments.
search_ble_datapoints_as_assignments(log, held, query_list, client, uri, token_uri, audience, client_id, client_secret) ==
    search_objects(log, held, "searchAssignments", query_list, client,
                   uri, token_uri, audience, client_id, None)

\* Lines 305-316: client_secret is not handed on here either.
search_ble_datapoints(log, held, query_list, client, uri, token_uri, audience, client_id, client_secret) ==
    search_objects(log, held, "searchDatapoints", query_list, client,
                   uri, token_uri, audience, client_id, None)

(***************************************************************************)
(* fetch_device_assignments.                                               *)
(***************************************************************************)
\* dict.get: the value under the key, None when the key is absent.
Get(d, k) == IF k \in DOMAIN d THEN d[k] ELSE None

\* minimal_honeycomb.filter_assignments: the assignments whose time window
\* [start, end) overlaps the window [start_time, end_time); a missing bound
\* is unbounded.
filter_assignments(assignments, start_time, end_time) ==
    SelectSeq(assignments, LAMBDA a :
        LET a_start == from_honeycomb_datetime(a.start)
            a_end == from_honeycomb_datetime(a.end)
        IN /\ \/ start_time = NoTime
              \/ a_end = NoTime
              \/ a_end[1] > start_time[1]
           /\ \/ end_time = NoTime
              \/ a_start = NoTime
              \/ a_start[1] < end_time[1])

\* Lines 221-231.
assignment_query_list(environment_id) ==
    << [field |-> "environment", operator |-> "EQ", value |-> environment_id],
       [field |-> "assigned_type", operator |-> "EQ", value |-> "DEVICE"] >>

\* device_type_selected without the test of the device type.
device_type_selected_any(datum, device_types) == TRUE

\* Line 266.
device_type_selected(datum, device_types) ==
    \/ device_types = NoTypes
    \/ Get(datum.assigned, "device_type") \in Range(device_types.list)

\* assignment_row reading device_id from the field tag_id.
assignment_row_tag_id_as_device_id(datum) ==
    [assignment_id |-> datum.assignment_id,
     device_id |-> Get(datum.assigned, "tag_id"),
     device_type |-> Get(datum.assigned, "device_type"),
     name |-> Get(datum.assigned, "name"),
     part_number |-> Get(datum.assigned, "part_number"),
     serial_number |-> Get(datum.assigned, "serial_number"),
     tag_id |-> Get(datum.assigned, "tag_id")]

\* Lines 267-275.
assignment_row(datum) ==
    [assignment_id |-> datum.assignment_id,
     device_id |-> Get(datum.assigned, "device_id"),
     device_type |-> Get(datum.assigned, "device_type"),
     name |-> Get(datum.assigned, "name"),
     part_number |-> Get(datum.assigned, "part_number"),
     serial_number |-> Get(datum.assigned, "serial_number"),
     tag_id |-> Get(datum.assigned, "tag_id")]

\* Lines 288-290: the index name and every column name get the prefix.
prefix_columns(row, column_name_prefix) ==
    IF column_name_prefix = None
        THEN row
        ELSE [k \in {column_name_prefix \o "_" \o c : c \in DOMAIN row} |->
                 row[CHOOSE c \in DOMAIN row : column_name_prefix \o "_" \o c = k]]

\* Lines 277-291: set_index raises KeyError on a frame built from no rows,
\* which has no column assignment_id.
assignments_table(data, column_name_prefix) ==
    IF Len(data) = 0
        THEN Raised(KeyError)
        ELSE Returned([i \in DOMAIN data |->
                          prefix_columns(data[i], column_name_prefix)])

fetch_device_assignments(log, held, environment_id, start, end, device_types, column_name_prefix, client, uri, token_uri, audience, client_id, client_secret) ==
    LET query_list == assignment_query_list(environment_id)
        \* lines 247-256: client_secret is not handed on
        found == search_assignments(log, held, query_list, client,
                                    uri, token_uri, audience, client_id, None)
        filtered_result == filter_assignments(found.out, start, end)
        selected == SelectSeq(filtered_result,
                              LAMBDA datum : device_type_selected(datum, device_types))
        data == [i \in DOMAIN selected |-> assignment_row(selected[i])]
    IN [out |-> assignments_table(data, column_name_prefix), log |-> found.log]

(***************************************************************************)
(* fetch_ble_datapoints: the datapoint query, the parsing and the joins.   *)
(***************************************************************************)
\* Line 71: the index of the tag table, without repetitions, in order.
unique_index(table, index_name) ==
    LET ids == [i \in DOMAIN table |-> table[i][index_name]]
        first(i) == \A j \in 1..(i - 1) : ids[j] # ids[i]
        keep == {i \in DOMAIN ids : first(i)}
        RECURSIVE take(_)
        take(i) == IF i > Len(ids) THEN <<>>
                   ELSE IF i \in keep THEN <<ids[i]>> \o take(i + 1)
                   ELSE take(i + 1)
    IN take(1)

\* datapoint_query_list with the upper bound added under the test of start.
datapoint_query_list_end_under_start(tag_assignment_ids, start, end) ==
    << [field |-> "source", operator |-> "IN", values |-> tag_assignment_ids] >>
    \o (IF start # NoTime
            THEN << [field |-> "timestamp", operator |-> "GTE",
                     value |-> to_honeycomb_datetime(start)],
                    [field |-> "timestamp", operator |-> "LTE",
                     value |-> to_honeycomb_datetime(start)] >>
            ELSE << >>)

\* Lines 73-90.
datapoint_query_list(tag_assignment_ids, start, end) ==
    << [field |-> "source", operator |-> "IN", values |-> tag_assignment_ids] >>
    \o (IF start # NoTime
            THEN << [field |-> "timestamp", operator |-> "GTE",
                     value |-> to_honeycomb_datetime(start)] >>
            ELSE << >>)
    \o (IF end # NoTime
            THEN << [field |-> "timestamp", operator |-> "LTE",
                     value |-> to_honeycomb_datetime(end)] >>
            ELSE << >>)

\* json.loads of an object: the payload is its key/value pairs in order; a
\* later pair overrides an earlier one with the same key.
json_loads(payload) ==
    [k \in {payload[i][1] : i \in DOMAIN payload} |->
        payload[CHOOSE i \in DOMAIN payload :
                    /\ payload[i][1] = k
                    /\ \A j \in DOMAIN payload : payload[j][1] = k => j <= i][2]]

\* pd.to_datetime of the service's datetime string.
to_datetime(s) == from_honeycomb_datetime(s)

\* Lines 117-124.  float() of the payload's number keeps its value.
datapoint_row(datum) ==
    LET data_dict == json_loads(datum.file.data)
    IN [data_id |-> datum.data_id,
        timestamp |-> to_datetime(datum.timestamp),
        tag_assignment_id |-> datum.source.assignment_id,
        anchor_id |-> Get(data_dict, "anchor_id"),
        rssi |-> Get(data_dict, "rssi")]

\* DataFrame.join(other, on=...): a left join of the rows on left[on] equal to
\* the index of other; a left row without a match is kept once, with empty
\* cells, and a left row with several matches is repeated once per match.
join(left, other, on, index_name, other_columns) ==
    LET matches(l) == SelectSeq(other, LAMBDA r : r[index_name] = l[on])
        columns(r) == [c \in other_columns |-> r[c]]
        empty == [c \in other_columns |-> None]
        rows(l) == IF Len(matches(l)) = 0
                       THEN << l @@ empty >>
                       ELSE [i \in DOMAIN matches(l) |-> l @@ columns(matches(l)[i])]
        RECURSIVE from(_)
        from(i) == IF i > Len(left) THEN <<>> ELSE rows(left[i]) \o from(i + 1)
    IN from(1)

\* Lines 129-135: the anchor table keyed by assignment ID, then by device ID.
anchor_ids_table(anchor_assignments_df) ==
    [i \in DOMAIN anchor_assignments_df |->
        anchor_assignments_df[i]
            @@ [anchor_id |-> anchor_assignments_df[i].anchor_assignment_id]]
    \o [i \in DOMAIN anchor_assignments_df |->
           anchor_assignments_df[i]
               @@ [anchor_id |-> anchor_assignments_df[i].anchor_device_id]]

AssignmentColumns ==
    {"device_id", "device_type", "name", "part_number", "serial_number", "tag_id"}

\* Lines 137-152.
return_columns(return_tag_name, return_tag_tag_id, return_anchor_name) ==
    {"timestamp", "tag_assignment_id", "tag_device_id"}
    \cup (IF return_tag_name THEN {"tag_name"} ELSE {})
    \cup (IF return_tag_tag_id THEN {"tag_tag_id"} ELSE {})
    \cup {"anchor_assignment_id", "anchor_device_id"}
    \cup (IF return_anchor_name THEN {"anchor_name"} ELSE {})
    \cup {"rssi"}

\* Lines 114-154: the datapoints parsed, joined and reindexed.  Reading the
\* column timestamp of a frame built from no rows raises KeyError.
datapoints_table(found, tag_assignments_df, anchor_assignments_df, return_tag_name, return_tag_tag_id, return_anchor_name) ==
    LET data == [i \in DOMAIN found |-> datapoint_row(found[i])]
        with_tags == join(data, tag_assignments_df, "tag_assignment_id",
                          "tag_assignment_id",
                          {"tag_" \o c : c \in AssignmentColumns})
        with_anchors == join(with_tags, anchor_ids_table(anchor_assignments_df),
                             "anchor_id", "anchor_id",
                             {"anchor_assignment_id"}
                                 \cup {"anchor_" \o c : c \in AssignmentColumns})
        kept == {"data_id"} \cup return_columns(return_tag_name, return_tag_tag_id,
                                                return_anchor_name)
    IN IF Len(data) = 0
           THEN Raised(KeyError)
           ELSE Returned([i \in DOMAIN with_anchors |->
                         [c \in kept |-> with_anchors[i][c]]])

(***************************************************************************)
(* What the service may hold, and what the caller may pass.                *)
(***************************************************************************)
Environments ==
    << [environment_id |-> "e1", name |-> "n1"],
       [environment_id |-> "e2", name |-> "n2"],
       [environment_id |-> "e3", name |-> "n2"] >>

Device(device_id, device_type, name) ==
    [device_id |-> device_id, part_number |-> "pn-" \o device_type,
     device_type |-> device_type, name |-> name,
     tag_id |-> "tag-" \o device_id, serial_number |-> "sn-" \o device_id]

Assignment(assignment_id, environment, assigned_type, start, end, assigned) ==
    [assignment_id |-> assignment_id, environment |-> environment,
     assigned_type |-> assigned_type, start |-> start, end |-> end,
     assigned |-> assigned]

AssignmentPool ==
    << Assignment("a1", "e1", "DEVICE", <<"iso", 1>>, <<"iso", 2>>,
                  Device("d1", "BLETAG", "tag one")),
       Assignment("a2", "e1", "DEVICE", <<"iso", 2>>, NoTime,
                  Device("d2", "BLETAG", "tag two")),
       Assignment("a3", "e1", "DEVICE", <<"iso", 1>>, NoTime,
                  Device("d3", "UWBTAG", "uwb tag")),
       Assignment("a4", "e1", "DEVICE", <<"iso", 1>>, <<"iso", 2>>,
                  Device("d4", "PIZERO", "anchor four")),
       Assignment("a5", "e1", "DEVICE", <<"iso", 2>>, NoTime,
                  Device("d4", "PIZERO", "anchor four")),
       Assignment("a6", "e1", "DEVICE", <<"iso", 3>>, NoTime,
                  Device("d5", "PI3", "anchor five")),
       Assignment("a7", "e1", "PERSON", <<"iso", 1>>, NoTime,
                  [person_id |-> "p1", name |-> "person one"]),
       Assignment("a8", "e2", "DEVICE", <<"iso", 1>>, NoTime,
                  Device("d6", "BLETAG", "tag six")) >>

Datapoint(data_id, t, assignment_id, anchor_id, rssi) ==
    [data_id |-> data_id, timestamp |-> <<"iso", t>>,
     source |-> [assignment_id |-> assignment_id],
     file |-> [data |-> << <<"anchor_id", anchor_id>>, <<"rssi", rssi>> >>]]

DatapointPool ==
    << Datapoint("p1", 1, "a1", "a4", -60),
       Datapoint("p2", 2, "a1", "d4", -61),
       Datapoint("p3", 3, "a2", "d5", -62),
       Datapoint("p4", 2, "a2", "zz", -63),
       Datapoint("p5", 2, "a3", "a6", -64) >>

\* The subsequences of at most n elements of a pool.
Held(pool, n) ==
    {SelectSeq(pool, LAMBDA x : x \in S) :
        S \in {T \in SUBSET Range(pool) : Cardinality(T) <= n}}

Times == {NoTime} \cup {<<t>> : t \in 1..MaxTime}

SuppliedClient == [instance |-> "supplied"]

Arguments ==
    [start : Times, end : Times,
     environment_id : {None, "e1"},
     environment_name : {None, "n0", "n1", "n2"},
     return_tag_name : BOOLEAN,
     return_tag_tag_id : {FALSE},
     return_anchor_name : {FALSE},
     tag_device_types : {List(<<"BLETAG">>), NoTypes},
     anchor_device_types : {List(<<"PIZERO", "PI3", "PI3WITHCAMERA">>),
                            List(<<"PI3">>)},
     client : {NoClient, SuppliedClient},
     uri : {"uri"}, token_uri : {"token_uri"}, audience : {"audience"},
     client_id : {"client_id"}, client_secret : {"client_secret"}]

(***************************************************************************)
(* The call of fetch_ble_datapoints.                                       *)
(***************************************************************************)
Init ==
    /\ args \in Arguments
    /\ service = [environments |-> Environments, assignments |-> <<>>,
                  datapoints |-> <<>>]
    /\ pc = "resolve"
    /\ clients = <<>>
    /\ queries = <<>>
    /\ env_outcome = NotRun
    /\ tag_outcome = NotRun
    /\ anchor_outcome = NotRun
    /\ result = <<>>
    /\ outcome = NotRun

Log == [clients |-> clients, queries |-> queries]

\* environment_missing never reporting a missing environment.
environment_missing_never(environment_id) == FALSE

\* Lines 37-38.
environment_missing(environment_id) == environment_id = None

\* Lines 26-38.
ResolveEnvironment ==
    /\ pc = "resolve"
    /\ LET r == fetch_environment_id(Log, service, args.environment_id,
                    args.environment_name, args.client, args.uri, args.token_uri,
                    args.audience, args.client_id, args.client_secret)
       IN /\ env_outcome' = r.out
          /\ clients' = r.log.clients
          /\ queries' = r.log.queries
          /\ IF r.out.raised
                 THEN pc' = "raised" /\ outcome' = r.out
                 ELSE IF environment_missing(r.out.value)
                     THEN pc' = "raised" /\ outcome' = Raised(MustSpecifyEnvironment)
                     ELSE pc' = "tags" /\ outcome' = outcome
    /\ UNCHANGED <<args, service, tag_outcome, anchor_outcome, result>>

\* Lines 39-54.  The assignments the service holds are drawn here.
FetchTagAssignments ==
    /\ pc = "tags"
    /\ \E held \in Held(AssignmentPool, MaxAssignments) :
        LET holds == [service EXCEPT !.assignments = held]
            r == fetch_device_assignments(Log, holds, env_outcome.value,
                    args.start, args.end, args.tag_device_types, "tag",
                    args.client, args.uri, args.token_uri, args.audience,
                    args.client_id, args.client_secret)
        IN /\ service' = holds
           /\ tag_outcome' = r.out
           /\ clients' = r.log.clients
           /\ queries' = r.log.queries
           /\ IF r.out.raised
                  THEN pc' = "raised" /\ outcome' = r.out
                  ELSE pc' = "anchors" /\ outcome' = outcome
    /\ UNCHANGED <<args, env_outcome, anchor_outcome, result>>

\* Lines 55-70.
FetchAnchorAssignments ==
    /\ pc = "anchors"
    /\ LET r == fetch_device_assignments(Log, service, env_outcome.value,
                    args.start, args.end, args.anchor_device_types, "anchor",
                    args.client, args.uri, args.token_uri, args.audience,
                    args.client_id, args.client_secret)
       IN /\ anchor_outcome' = r.out
          /\ clients' = r.log.clients
          /\ queries' = r.log.queries
          /\ IF r.out.raised
                 THEN pc' = "raised" /\ outcome' = r.out
                 ELSE pc' = "search" /\ outcome' = outcome
    /\ UNCHANGED <<args, service, env_outcome, tag_outcome, result>>

\* Lines 71-113.  The datapoints the service holds are drawn here.
SearchDatapoints ==
    /\ pc = "search"
    /\ \E held \in Held(DatapointPool, MaxDatapoints) :
        LET holds == [service EXCEPT !.datapoints = held]
            tag_assignment_ids == unique_index(tag_outcome.value, "tag_assignment_id")
            query_list == datapoint_query_list(tag_assignment_ids, args.start, args.end)
            r == search_ble_datapoints(Log, holds, query_list, args.client,
                    args.uri, args.token_uri, args.audience, args.client_id,
                    args.client_secret)
        IN /\ service' = holds
           /\ result' = r.out
           /\ clients' = r.log.clients
           /\ queries' = r.log.queries
    /\ pc' = "parse"
    /\ UNCHANGED <<args, env_outcome, tag_outcome, anchor_outcome, outcome>>

\* Lines 114-154.
ParseAndJoin ==
    /\ pc = "parse"
    /\ outcome' = datapoints_table(result, tag_outcome.value, anchor_outcome.value,
                      args.return_tag_name, args.return_tag_tag_id,
                      args.return_anchor_name)
    /\ pc' = IF outcome'.raised THEN "raised" ELSE "returned"
    /\ UNCHANGED <<args, service, clients, queries, env_outcome, tag_outcome,
                   anchor_outcome, result>>

Next ==
    \/ ResolveEnvironment
    \/ FetchTagAssignments
    \/ FetchAnchorAssignments
    \/ SearchDatapoints
    \/ ParseAndJoin

Spec == Init /\ [][Next]_vars

(***************************************************************************)
(* Properties.                                                             *)
(***************************************************************************)
Resolved == pc # "resolve"
IdGiven == args.environment_id # None
NameGiven == args.environment_name # None
RequestNames == [i \in DOMAIN queries |-> queries[i].request_name]

\* C1: an environment ID given without a name is returned unchanged by
\* fetch_environment_id, which then constructs no client and issues no query.
C1_IdReturnedUnchanged ==
    (Resolved /\ IdGiven /\ ~NameGiven) =>
        /\ ~env_outcome.raised
        /\ env_outcome.value = args.environment_id
        /\ \A i \in DOMAIN queries : queries[i].request_name # "findEnvironments"
        /\ pc = "tags" => (queries = <<>> /\ clients = <<>>)

C1_Witness ==
    /\ pc = "tags" /\ IdGiven /\ ~NameGiven
    /\ env_outcome = Returned("e1")

\* C2: with only a name, fetch_environment_id returns the ID of the matching
\* environment exactly when the service holds one environment of that name;
\* with none or several it raises and returns no ID.
NamedEnvironments ==
    {e \in Range(service.environments) : e.name = args.environment_name}

C2_NameResolvesIffUnique ==
    (Resolved /\ ~IdGiven /\ NameGiven) =>
        IF Cardinality(NamedEnvironments) = 1
            THEN /\ ~env_outcome.raised
                 /\ \E e \in NamedEnvironments : env_outcome.value = e.environment_id
            ELSE /\ env_outcome.raised
                 /\ env_outcome.error = IF NamedEnvironments = {}
                                            THEN NoEnvironmentsMatch
                                            ELSE MultipleEnvironmentsMatch
                 /\ pc = "raised"

C2_Witness ==
    /\ pc = "tags" /\ ~IdGiven /\ args.environment_name = "n1"
    /\ env_outcome = Returned("e1")
    /\ RequestNames = <<"findEnvironments">>

\* C3: with both an ID and a name, fetch_environment_id raises, and so does
\* fetch_ble_datapoints, before any client is constructed or query issued.
C3_IdAndNameRaise ==
    (Resolved /\ IdGiven /\ NameGiven) =>
        /\ env_outcome = Raised(NameWithId)
        /\ outcome = Raised(NameWithId)
        /\ pc = "raised"
        /\ queries = <<>>
        /\ clients = <<>>

C3_Witness ==
    /\ pc = "raised" /\ IdGiven /\ NameGiven
    /\ outcome.raised

\* C4 as stated: with neither an ID nor a name, fetch_environment_id ends in
\* an error rather than returning a value.
C4_UnspecifiedRaisesInResolver ==
    (Resolved /\ ~IdGiven /\ ~NameGiven) => env_outcome.raised

\* C4 as amended: with neither an ID nor a name, fetch_environment_id returns
\* None without a query, and it is fetch_ble_datapoints that raises
\* 'Must specify environment', before any query.
C4_UnspecifiedReturnsNone ==
    (Resolved /\ ~IdGiven /\ ~NameGiven) =>
        /\ env_outcome = Returned(None)
        /\ outcome = Raised(MustSpecifyEnvironment)
        /\ pc = "raised"
        /\ queries = <<>>
        /\ clients = <<>>

C4_Witness ==
    /\ pc = "raised" /\ ~IdGiven /\ ~NameGiven
    /\ env_outcome = Returned(None)

\* The window [a.start, a.end) of an assignment meets the window [start, end)
\* of the call; a missing bound is unbounded.
Overlaps(a, start, end) ==
    /\ (end # NoTime /\ a.start # NoTime) => a.start[2] < end[1]
    /\ (start # NoTime /\ a.end # NoTime) => start[1] < a.end[2]

\* The assignments held by the service that the fetch is to return.
Wanted(device_types) ==
    {a \in Range(service.assignments) :
        /\ a.environment = env_outcome.value
        /\ a.assigned_type = "DEVICE"
        /\ Overlaps(a, args.start, args.end)
        /\ device_types.none \/ a.assigned.device_type \in Range(device_types.list)}

Describes(row, prefix, a) ==
    /\ row[prefix \o "_assignment_id"] = a.assignment_id
    /\ row[prefix \o "_device_id"] = a.assigned.device_id
    /\ row[prefix \o "_device_type"] = a.assigned.device_type

ExactlyWanted(out, prefix, device_types) ==
    (out # NotRun /\ ~out.raised) =>
        /\ \A i \in DOMAIN out.value :
               \E a \in Wanted(device_types) : Describes(out.value[i], prefix, a)
        /\ \A a \in Wanted(device_types) :
               \E i \in DOMAIN out.value : Describes(out.value[i], prefix, a)

Parsed ==
    /\ pc \in {"returned", "raised"}
    /\ anchor_outcome # NotRun
    /\ ~anchor_outcome.raised

\* C6: the table fetch_ble_datapoints returns has one row per datapoint the
\* search returned, also when an anchor identifier matches several entries of
\* the anchor lookup table and when no datapoint is returned.
C6_OneRowPerDatapoint ==
    Parsed => (~outcome.raised /\ Len(outcome.value) = Len(result))

\* The anchor_id of the payload of the datapoint a row comes from.
PayloadAnchorId(row) ==
    LET d == CHOOSE d \in Range(result) : d.data_id = row.data_id
        at == CHOOSE i \in DOMAIN d.file.data : d.file.data[i][1] = "anchor_id"
    IN d.file.data[at][2]

\* The assignments of the service that the anchor fetch returned.
FetchedAnchors ==
    {a \in Range(service.assignments) :
        \E i \in DOMAIN anchor_outcome.value :
            anchor_outcome.value[i].anchor_assignment_id = a.assignment_id}

AnchorFilled(row) ==
    row.anchor_assignment_id # None \/ row.anchor_device_id # None

\* C7: a row with filled anchor columns carries the assignment ID and the
\* device ID of a fetched anchor assignment one of whose two IDs is the
\* payload's anchor_id; a row whose anchor_id is neither ID of any fetched
\* anchor assignment has empty anchor columns.
C7_AnchorLinkage ==
    pc = "returned" =>
        \A i \in DOMAIN outcome.value :
            LET row == outcome.value[i]
                anchor_id == PayloadAnchorId(row)
                linked == {a \in FetchedAnchors :
                              \/ a.assignment_id = anchor_id
                              \/ a.assigned.device_id = anchor_id}
            IN /\ AnchorFilled(row) =>
                      \E a \in linked :
                          /\ row.anchor_assignment_id = a.assignment_id
                          /\ row.anchor_device_id = a.assigned.device_id
               /\ linked = {} => ~AnchorFilled(row)

C7_Witness ==
    /\ pc = "returned"
    /\ \E i \in DOMAIN outcome.value :
           /\ AnchorFilled(outcome.value[i])
           /\ PayloadAnchorId(outcome.value[i]) = outcome.value[i].anchor_device_id
    /\ \E i \in DOMAIN outcome.value : ~AnchorFilled(outcome.value[i])

IsPrefix(s, t) == Len(s) <= Len(t) /\ \A i \in DOMAIN s : s[i] = t[i]

Searches == {i \in DOMAIN queries : queries[i].request_name # "findEnvironments"}

EnvironmentQueries ==
    IF ~IdGiven /\ NameGiven THEN <<"findEnvironments">> ELSE <<>>

\* C8: the queries are issued in the order environment resolution, tag
\* assignment search, anchor assignment search, datapoint search, each search
\* only once the environment is resolved; with neither an ID nor a name the
\* call raises and no search is ever issued.
C8_QueryOrder ==
    /\ IsPrefix(RequestNames,
                EnvironmentQueries
                    \o <<"searchAssignments", "searchAssignments", "searchDatapoints">>)
    /\ Searches # {} =>
           /\ Resolved /\ ~env_outcome.raised /\ env_outcome.value # None
           /\ \A i \in Searches :
                  queries[i].request_name = "searchAssignments" =>
                      queries[i].arguments.query.value.children[1].value
                          = env_outcome.value
    /\ tag_outcome # NotRun <=> Cardinality(Searches) >= 1
    /\ anchor_outcome # NotRun <=> Cardinality(Searches) >= 2
    /\ (pc \in {"parse", "returned"} \/ Parsed) <=> Cardinality(Searches) = 3
    /\ (Resolved /\ ~IdGiven /\ ~NameGiven) =>
           (pc = "raised" /\ outcome.raised /\ Searches = {})

C8_Witness ==
    /\ pc = "returned"
    /\ RequestNames = <<"findEnvironments", "searchAssignments",
                        "searchAssignments", "searchDatapoints">>

FetchedTagIds ==
    {tag_outcome.value[i].tag_assignment_id : i \in DOMAIN tag_outcome.value}

ExpectedBounds ==
    (IF args.start # NoTime
         THEN {[field |-> "timestamp", operator |-> "GTE",
                value |-> <<"iso", args.start[1]>>]}
         ELSE {})
    \cup (IF args.end # NoTime
              THEN {[field |-> "timestamp", operator |-> "LTE",
                     value |-> <<"iso", args.end[1]>>]}
              ELSE {})

\* C9: the datapoint search is the AND of 'source IN' the IDs of the fetched
\* tag assignments, 'timestamp GTE start' exactly when start is given and
\* 'timestamp LTE end' exactly when end is given, and nothing else; every row
\* of the returned table has the tag_assignment_id of a fetched tag assignment.
C9_DatapointQuery ==
    (pc \in {"parse", "returned"} \/ Parsed) =>
        LET q == queries[Len(queries)]
            children == q.arguments.query.value.children
            bounds == {children[i] : i \in 2..Len(children)}
        IN /\ q.request_name = "searchDatapoints"
           /\ q.arguments.query.value.operator = "AND"
           /\ children[1].field = "source" /\ children[1].operator = "IN"
           /\ Range(children[1].values) = FetchedTagIds
           /\ Len(children) = 1 + Cardinality(ExpectedBounds)
           /\ bounds = ExpectedBounds
           /\ \A i \in DOMAIN result :
                  result[i].source.assignment_id \in FetchedTagIds
           /\ pc = "returned" =>
                  \A i \in DOMAIN outcome.value :
                      outcome.value[i].tag_assignment_id \in FetchedTagIds

C9_Witness ==
    /\ pc = "returned"
    /\ args.start # NoTime /\ args.end = NoTime
    /\ Len(queries[Len(queries)].arguments.query.value.children) = 2
    /\ \E i \in DOMAIN service.datapoints :
           service.datapoints[i].source.assignment_id \notin FetchedTagIds

\* C10: without a supplied client, every client constructed during the call
\* gets the caller's uri, token_uri, audience, client_id and client_secret
\* unchanged; with a supplied client, every query uses that instance and no
\* client is constructed.
C10_CredentialsReachConstructor ==
    IF args.client = NoClient
        THEN \A i \in DOMAIN clients :
                 clients[i] = MinimalHoneycombClient(args.uri, args.token_uri,
                                  args.audience, args.client_id, args.client_secret)
        ELSE /\ clients = <<>>
             /\ \A i \in DOMAIN queries : queries[i].client = args.client

====
